---- MODULE Spec2Model ----
(***************************************************************************)
(* Echo-Mind customer-support backend (src/Backend/main.py).               *)
(*                                                                         *)
(* The model covers the dialogue orchestration pipeline: the two document  *)
(* collections (customers, cases), the /chat handler chat_endpoint, the    *)
(* /resolve_case handler resolve_case_endpoint, and the pure functions     *)
(* they call (intent classifier, sentiment classifier, knowledge base      *)
(* lookup, domain restriction, escalation policy).                         *)
(*                                                                         *)
(* Texts are TLA+ strings; Python's str operations are modelled on them    *)
(* character by character (Len, SubSeq, \o).  A null value (Python None,   *)
(* or a key absent from a document) is the value None.                     *)
(***************************************************************************)
EXTENDS Integers, Sequences, FiniteSets, TLC

\* ------------------------------------------------------------------------
\* Bounds of the model
\* ------------------------------------------------------------------------

\* Number of requests handled in one behaviour (the clock is capped here).
MaxClock == 3

\* Longest conversation_history (in user/bot turn pairs) a client fabricates.
MaxClientTurns == 2

\* Number of requests handled in one behaviour of the one-case specification.
MaxLifeClock == 4

\* Largest turn number the escalation policy is called with on its own.
MaxPolicyTurn == 5

None == "None"

\* ------------------------------------------------------------------------
\* Text helpers (Python str / re primitives)
\* ------------------------------------------------------------------------

UPPER == "ABCDEFGHIJKLMNOPQRSTUVWXYZ"
LOWER == "abcdefghijklmnopqrstuvwxyz"
DIGITS == "0123456789"

Char(s, i) == SubSeq(s, i, i)

CharsOf(s) == { Char(s, i) : i \in 1..Len(s) }

\* \s of the re module / the characters str.strip() removes
Whitespace == {" ", "\t", "\n"}

\* [a-zA-Z0-9]
Alnum == CharsOf(UPPER) \cup CharsOf(LOWER) \cup CharsOf(DIGITS)

LowerChar(c) ==
    IF c \in CharsOf(UPPER)
    THEN Char(LOWER, CHOOSE i \in 1..Len(UPPER) : Char(UPPER, i) = c)
    ELSE c

UpperChar(c) ==
    IF c \in CharsOf(LOWER)
    THEN Char(UPPER, CHOOSE i \in 1..Len(LOWER) : Char(LOWER, i) = c)
    ELSE c

\* The value of F at v, with v evaluated once (a let that binds a value).
Bind(v, F(_)) == CHOOSE r \in { F(x) : x \in {v} } : TRUE

\* s[i:] lower-cased / upper-cased
RECURSIVE LowerFrom(_, _)
LowerFrom(s, i) ==
    IF i > Len(s) THEN "" ELSE LowerChar(Char(s, i)) \o LowerFrom(s, i + 1)

RECURSIVE UpperFrom(_, _)
UpperFrom(s, i) ==
    IF i > Len(s) THEN "" ELSE UpperChar(Char(s, i)) \o UpperFrom(s, i + 1)

str_lower(s) == LowerFrom(s, 1)

str_upper(s) == UpperFrom(s, 1)

\* First index j >= i whose character is outside cls (Len(s)+1 if none):
\* where a greedy character-class repetition starting at i stops.
SkipClass(s, i, cls) ==
    CHOOSE j \in i..(Len(s) + 1) :
        /\ \A k \in i..(j - 1) : Char(s, k) \in cls
        /\ (j = Len(s) + 1 \/ Char(s, j) \notin cls)

\* Last index j <= i whose character is outside cls (0 if none).
SkipClassBack(s, i, cls) ==
    CHOOSE j \in 0..i :
        /\ \A k \in (j + 1)..i : Char(s, k) \in cls
        /\ (j = 0 \/ Char(s, j) \notin cls)

str_strip(s) ==
    LET a == SkipClass(s, 1, Whitespace)
        b == SkipClassBack(s, Len(s), Whitespace)
    IN  IF a > b THEN "" ELSE SubSeq(s, a, b)

\* p occurs in s starting at index i
PrefixAt(s, p, i) ==
    /\ i >= 1
    /\ i + Len(p) - 1 <= Len(s)
    /\ SubSeq(s, i, i + Len(p) - 1) = p

\* Python: p in s
Contains(s, p) == \E i \in 1..(Len(s) - Len(p) + 1) : PrefixAt(s, p, i)

\* Python: any(w in s for w in words)
AnyIn(words, s) == \E n \in 1..Len(words) : Contains(s, words[n])

\* s[i:].replace(c, "") for a one-character c
RECURSIVE RemoveFrom(_, _, _)
RemoveFrom(s, i, c) ==
    IF i > Len(s) THEN ""
    ELSE (IF Char(s, i) = c THEN "" ELSE Char(s, i)) \o RemoveFrom(s, i + 1, c)

str_remove(s, c) == RemoveFrom(s, 1, c)

\* str.capitalize(): first character upper-cased, the rest lower-cased
str_capitalize(s) ==
    IF s = "" THEN "" ELSE UpperChar(Char(s, 1)) \o LowerFrom(s, 2)

\* ------------------------------------------------------------------------
\* Intent / urgency classifier (determine_intent_and_urgency)
\* ------------------------------------------------------------------------

\* re.match(pattern, query_lower) for the greeting patterns: each pattern is a
\* literal followed at most by a repetition of its last letter, so it matches
\* exactly when the literal is a prefix of the text.
greeting_patterns == <<"hi", "hello", "hey", "good morning", "good afternoon", "good evening">>

IsGreeting(query_lower) ==
    \E n \in 1..Len(greeting_patterns) : PrefixAt(query_lower, greeting_patterns[n], 1)

\* Index after the phrase `words` (words separated by \s+) matched at i, 0 if
\* it does not match there.
RECURSIVE MatchWords(_, _, _)
MatchWords(s, i, words) ==
    IF ~PrefixAt(s, words[1], i) THEN 0
    ELSE LET e == i + Len(words[1])
         IN  IF Len(words) = 1 THEN e
             ELSE LET w == SkipClass(s, e, Whitespace)
                  IN  IF w = e THEN 0 ELSE MatchWords(s, w, Tail(words))

\* [\#]?([a-zA-Z0-9]+) at index j: the captured token, None if no match.
CaptureId(s, j) ==
    LET k == IF PrefixAt(s, "#", j) THEN j + 1 ELSE j
        e == SkipClass(s, k, Alnum)
    IN  IF k <= Len(s) /\ e > k THEN SubSeq(s, k, e - 1) ELSE None

shopid_phrases ==
    << <<"my", "order", "number", "is">>, <<"order", "number", "is">>,
       <<"order", "id", "is">>, <<"shopid", "is">>, <<"id", "is">> >>

shopid_labels == <<"shopid", "orderid", "tracking", "ref", "id">>

shopid_suffixes == <<"order", "shopid", "tracking", "ref", "id">>

\* Pattern 1 anchored at i:
\* (?:my\s+order\s+number\s+is|...|id\s+is)\s*[\#]?([a-zA-Z0-9]+)
ShopidPattern1At(s, i) ==
    LET hits == { n \in 1..Len(shopid_phrases) :
                    /\ MatchWords(s, i, shopid_phrases[n]) # 0
                    /\ CaptureId(s, SkipClass(s, MatchWords(s, i, shopid_phrases[n]), Whitespace)) # None }
    IN  IF hits = {} THEN None
        ELSE LET n == CHOOSE m \in hits : \A o \in hits : m <= o
             IN  CaptureId(s, SkipClass(s, MatchWords(s, i, shopid_phrases[n]), Whitespace))

\* Pattern 2 anchored at i: (?:shopid|orderid|tracking|ref|id)[\s:]*[\#]?([a-zA-Z0-9]+)
ShopidPattern2At(s, i) ==
    LET hits == { n \in 1..Len(shopid_labels) :
                    /\ PrefixAt(s, shopid_labels[n], i)
                    /\ CaptureId(s, SkipClass(s, i + Len(shopid_labels[n]), Whitespace \cup {":"})) # None }
    IN  IF hits = {} THEN None
        ELSE LET n == CHOOSE m \in hits : \A o \in hits : m <= o
             IN  CaptureId(s, SkipClass(s, i + Len(shopid_labels[n]), Whitespace \cup {":"}))

\* Pattern 3 anchored at i: ([a-zA-Z0-9]+)\s+(?:order|shopid|tracking|ref|id)
ShopidPattern3At(s, i) ==
    LET e == SkipClass(s, i, Alnum)
        w == SkipClass(s, e, Whitespace)
    IN  IF /\ e > i
           /\ w > e
           /\ \E n \in 1..Len(shopid_suffixes) : PrefixAt(s, shopid_suffixes[n], w)
        THEN SubSeq(s, i, e - 1)
        ELSE None

ShopidPatternAt(p, s, i) ==
    CASE p = 1 -> ShopidPattern1At(s, i)
      [] p = 2 -> ShopidPattern2At(s, i)
      [] p = 3 -> ShopidPattern3At(s, i)

\* re.search(pattern, s).group(1): the capture of the leftmost match, None if
\* the pattern matches nowhere.
ShopidSearch(p, s) ==
    LET at == { i \in 1..Len(s) : ShopidPatternAt(p, s, i) # None }
    IN  IF at = {} THEN None
        ELSE ShopidPatternAt(p, s, CHOOSE i \in at : \A j \in at : i <= j)

technical_words == <<"internet", "wifi", "connection", "network", "technical issue", "troubleshoot", "device">>
billing_words == <<"bill", "invoice", "payment", "charge", "account balance", "billing issue", "cost", "fee">>
installation_words == <<"installation", "setup", "install", "new service", "activate">>
plan_words == <<"change plan", "upgrade", "downgrade", "new plan", "service package", "contract">>
order_words == <<"order status", "track order", "where is my order", "delivery", "shipping", "item arrived">>
finance_words == <<"loan", "mortgage", "investment", "credit card", "bank account", "financial advice", "money">>
travel_words == <<"booking", "flight", "hotel", "reservation", "vacation", "tour", "travel plan", "destination", "trip">>

KeywordIntent(query_lower) ==
    CASE AnyIn(technical_words, query_lower) -> "technical_support"
      [] OTHER ->
    CASE AnyIn(billing_words, query_lower) -> "billing_inquiry"
      [] OTHER ->
    CASE Contains(query_lower, "refund") -> "refund_request"
      [] OTHER ->
    CASE AnyIn(installation_words, query_lower) -> "installation_support"
      [] OTHER ->
    CASE AnyIn(plan_words, query_lower) -> "plan_management"
      [] OTHER ->
    CASE AnyIn(order_words, query_lower) -> "order_status"
      [] OTHER ->
    CASE AnyIn(finance_words, query_lower) -> "finance_query"
      [] OTHER ->
    CASE AnyIn(travel_words, query_lower) -> "travel_hospitality_query"
      [] OTHER -> "general_inquiry"

\* The intent labels determine_intent_and_urgency assigns.
Intents ==
    {"greeting", "order_status", "technical_support", "billing_inquiry", "refund_request",
     "installation_support", "plan_management", "finance_query", "travel_hospitality_query",
     "general_inquiry"}

\* The classifier trying the shop-id patterns before the greeting patterns.
ClassifyNormalized_ShopIdFirst(query_lower) ==
    LET urgency == "low"
        found == { p \in 1..3 : ShopidSearch(p, query_lower) # None }
    IN  IF found # {}
        THEN [intent |-> "order_status", urgency |-> urgency,
              shopid |-> ShopidSearch(CHOOSE p \in found : \A q \in found : p <= q, query_lower)]
        ELSE IF IsGreeting(query_lower)
        THEN [intent |-> "greeting", urgency |-> urgency, shopid |-> None]
        ELSE [intent |-> KeywordIntent(query_lower), urgency |-> urgency, shopid |-> None]

\* The classifier on the normalized text.  entities is the extracted shop
\* id, None for the empty dict.
ClassifyNormalized(query_lower) ==
    LET urgency == "low"
        found == { p \in 1..3 : ShopidSearch(p, query_lower) # None }
    IN  IF IsGreeting(query_lower)
        THEN [intent |-> "greeting", urgency |-> urgency, shopid |-> None]
        ELSE IF found # {}
        THEN [intent |-> "order_status", urgency |-> urgency,
              shopid |-> ShopidSearch(CHOOSE p \in found : \A q \in found : p <= q, query_lower)]
        ELSE [intent |-> KeywordIntent(query_lower), urgency |-> urgency, shopid |-> None]

\* A classifier that raises the urgency of texts reporting a breakdown.
determine_intent_and_urgency_UrgentBreakdown(query) ==
    LET Raised(query_lower) ==
            [ClassifyNormalized(query_lower) EXCEPT
                !.urgency = IF Contains(query_lower, "not working") THEN "high" ELSE "low"]
    IN  Bind(str_strip(str_lower(query)), Raised)

determine_intent_and_urgency(query) ==
    Bind(str_strip(str_lower(query)), ClassifyNormalized)

\* ------------------------------------------------------------------------
\* Sentiment classifier (analyze_sentiment)
\* ------------------------------------------------------------------------

frustrated_words == <<"not working", "frustrated", "annoyed", "unhappy", "bad", "terrible">>
satisfied_words == <<"thank you", "resolved", "great", "happy", "good", "excellent">>

analyze_sentiment(text) ==
    LET Label(text_lower) ==
            IF AnyIn(frustrated_words, text_lower) THEN "frustrated"
            ELSE IF AnyIn(satisfied_words, text_lower) THEN "satisfied"
            ELSE "neutral"
    IN  Bind(str_lower(text), Label)

\* ------------------------------------------------------------------------
\* Knowledge base lookup (get_knowledge_base_info)
\* ------------------------------------------------------------------------

Domains == {"general", "technical", "finance", "travel"}

NoArticle == "No specific knowledge base article found for this query."

\* The built-in table used when domain_questions.json is not found; each
\* domain's entries in insertion order.
domain_knowledge_bases ==
    [d \in Domains |->
        CASE d = "general" ->
               << <<"refund status", "Refunds typically take 5-7 business days to process. Please provide your order number to check the status.">> >>
          [] d = "technical" ->
               << <<"internet not working", "Please try restarting your router and modem. If the issue persists, check the service status page for your area.">>,
                  <<"installation help", "For installation assistance, please refer to your product manual or visit our online guides.">> >>
          [] d = "finance" ->
               << <<"billing inquiry", "For billing inquiries, please provide your account number. You can also check your last bill online.">> >>
          [] d = "travel" ->
               << <<"change plan", "You can change your service plan through your online account portal or by speaking with a sales representative.">>,
                  <<"flight status", "You can check your flight status on the airline's website or app using your booking reference.">> >>]

get_knowledge_base_info(query, domain) ==
    LET knowledge_base == IF domain \in Domains THEN domain_knowledge_bases[domain] ELSE <<>>
        Lookup(query_lower) ==
            LET hits == { n \in 1..Len(knowledge_base) : Contains(query_lower, knowledge_base[n][1]) }
            IN  IF hits = {} THEN NoArticle
                ELSE knowledge_base[CHOOSE n \in hits : \A m \in hits : n <= m][2]
    IN  Bind(str_lower(query), Lookup)

\* ------------------------------------------------------------------------
\* Domain restriction (chat_endpoint, "Domain Restriction Logic")
\* ------------------------------------------------------------------------

domain_map(domain) ==
    CASE domain = "general" -> {"general_inquiry", "greeting"}
      [] domain = "technical" -> {"technical_support", "installation_support", "greeting"}
      [] domain = "finance" -> {"finance_query", "billing_inquiry", "greeting"}
      [] domain = "travel" -> {"travel_hospitality_query", "greeting", "order_status"}
      [] OTHER -> {}

\* The restriction with the general_inquiry exception (the elif) left out.
DomainAllows_NoInquiryException(intent, domain) ==
    IF intent \notin domain_map(domain)
    THEN IF intent = "order_status" /\ domain = "general" THEN TRUE
         ELSE FALSE
    ELSE TRUE

DomainAllows(intent, domain) ==
    IF intent \notin domain_map(domain)
    THEN IF intent = "order_status" /\ domain = "general" THEN TRUE
         ELSE IF intent = "general_inquiry" /\ domain # "general" THEN TRUE
         ELSE FALSE
    ELSE TRUE

\* The restriction tabulated over every intent label and every chat domain.
GuardTable == [intent \in Intents, domain \in Domains |-> DomainAllows(intent, domain)]

\* ------------------------------------------------------------------------
\* Escalation policy (manage_case_escalation)
\* ------------------------------------------------------------------------

escalation_intents ==
    {"technical_support", "billing_inquiry", "finance_query", "travel_hospitality_query", "order_status"}

\* manage_case_escalation without its first check (if escalated_in_session).
manage_case_escalation_NoLatch(current_turn, intent, urgency, sentiment, escalated_in_session) ==
    IF urgency = "high" /\ sentiment = "frustrated" THEN TRUE
    ELSE IF current_turn > 3 /\ sentiment = "frustrated" THEN TRUE
    ELSE IF intent \in escalation_intents /\ current_turn > 2 THEN TRUE
    ELSE FALSE

\* manage_case_escalation with current_turn >= 3 in its third check.
manage_case_escalation_FrustratedFromTurn3(current_turn, intent, urgency, sentiment, escalated_in_session) ==
    IF escalated_in_session THEN TRUE
    ELSE IF urgency = "high" /\ sentiment = "frustrated" THEN TRUE
    ELSE IF current_turn >= 3 /\ sentiment = "frustrated" THEN TRUE
    ELSE IF intent \in escalation_intents /\ current_turn > 2 THEN TRUE
    ELSE FALSE

manage_case_escalation(current_turn, intent, urgency, sentiment, escalated_in_session) ==
    IF escalated_in_session THEN TRUE
    ELSE IF urgency = "high" /\ sentiment = "frustrated" THEN TRUE
    ELSE IF current_turn > 3 /\ sentiment = "frustrated" THEN TRUE
    ELSE IF intent \in escalation_intents /\ current_turn > 2 THEN TRUE
    ELSE FALSE

\* ------------------------------------------------------------------------
\* Order lookup (get_order_details_by_id)
\* ------------------------------------------------------------------------

IsDigits(s) == s # "" /\ \A i \in 1..Len(s) : Char(s, i) \in CharsOf(DIGITS)

DigitValue(c) == (CHOOSE i \in 1..Len(DIGITS) : Char(DIGITS, i) = c) - 1

\* int(s[:k]) for a string of digits
RECURSIVE IntUpTo(_, _)
IntUpTo(s, k) ==
    IF k = 0 THEN 0 ELSE 10 * IntUpTo(s, k - 1) + DigitValue(Char(s, k))

str_int(s) == IntUpTo(s, Len(s))

IsLeap(year) == (year % 4 = 0 /\ year % 100 # 0) \/ year % 400 = 0

DaysInMonth(year, month) ==
    CASE month \in {1, 3, 5, 7, 8, 10, 12} -> 31
      [] month \in {4, 6, 9, 11} -> 30
      [] OTHER -> IF IsLeap(year) THEN 29 ELSE 28

RECURSIVE DaysBeforeMonth(_, _)
DaysBeforeMonth(year, month) ==
    IF month = 1 THEN 0 ELSE DaysBeforeMonth(year, month - 1) + DaysInMonth(year, month - 1)

\* date.toordinal(): the day number in the proleptic Gregorian calendar
toordinal(date) ==
    LET p == date.year - 1
    IN  p * 365 + (p \div 4) - (p \div 100) + (p \div 400)
          + DaysBeforeMonth(date.year, date.month) + date.day

NoDate == [ok |-> FALSE, year |-> 0, month |-> 0, day |-> 0]

\* datetime.strptime(text, "%Y-%m-%d").date(); ok is FALSE where strptime
\* raises ValueError.  %Y is four digits, %m is 1..12 and %d is 1..31 in one
\* or two characters (%d also as a space and a digit), and the day must exist
\* in the month.
strptime_date(text) ==
    LET dashes == { i \in 1..Len(text) : Char(text, i) = "-" }
    IN  IF Cardinality(dashes) # 2 THEN NoDate
        ELSE LET a == CHOOSE i \in dashes : \A j \in dashes : i <= j
                 b == CHOOSE i \in dashes : \A j \in dashes : i >= j
                 Y == SubSeq(text, 1, a - 1)
                 m == SubSeq(text, a + 1, b - 1)
                 d0 == SubSeq(text, b + 1, Len(text))
                 d == IF Len(d0) = 2 /\ Char(d0, 1) = " " THEN SubSeq(d0, 2, 2) ELSE d0
             IN  IF /\ IsDigits(Y) /\ Len(Y) = 4
                    /\ IsDigits(m) /\ Len(m) <= 2
                    /\ IsDigits(d) /\ Len(d) <= 2
                    /\ (d # d0 => str_int(d) # 0)
                    /\ str_int(Y) >= 1
                    /\ str_int(m) \in 1..12
                    /\ str_int(d) \in 1..DaysInMonth(str_int(Y), str_int(m))
                 THEN [ok |-> TRUE, year |-> str_int(Y), month |-> str_int(m), day |-> str_int(d)]
                 ELSE NoDate

MonthNames ==
    <<"January", "February", "March", "April", "May", "June", "July", "August",
      "September", "October", "November", "December">>

\* date.strftime('%B %d, %Y')
strftime_date(date) ==
    MonthNames[date.month] \o " "
      \o (IF date.day < 10 THEN "0" ELSE "") \o ToString(date.day)
      \o ", " \o ToString(date.year)

\* The delivery_info of an order whose delivery_date is the text delivery_str.
DeliveryInfo(delivery_str, today) ==
    IF delivery_str = None \/ delivery_str = "" THEN "Not Available"
    ELSE LET Info(delivery_date) ==
                 IF ~delivery_date.ok
                 THEN "'" \o delivery_str \o "' (Invalid date format stored. Please contact support to correct this.)"
                 ELSE LET days_left == toordinal(delivery_date) - toordinal(today)
                      IN  IF days_left > 0
                          THEN strftime_date(delivery_date) \o " (expected in " \o ToString(days_left) \o " days)"
                          ELSE IF days_left = 0
                          THEN strftime_date(delivery_date) \o " (expected today!)"
                          ELSE strftime_date(delivery_date) \o " (was " \o ToString(0 - days_left)
                                 \o " days ago, possibly delivered or completed)"
         IN  Bind(strptime_date(delivery_str), Info)

OrderFound(order, today) ==
    "Order found:\n"
      \o "Product: " \o (IF order.product_name = None THEN "Unknown Product" ELSE order.product_name) \o "\n"
      \o "Payment Status: " \o (IF order.payment_status = None THEN "Unknown" ELSE order.payment_status) \o "\n"
      \o "Estimated Delivery: " \o DeliveryInfo(order.delivery_date, today)

\* re.fullmatch(r'^[A-Z0-9]+$', shopid_clean)
IsShopId(shopid_clean) ==
    /\ shopid_clean # ""
    /\ \A i \in 1..Len(shopid_clean) : Char(shopid_clean, i) \in CharsOf(UPPER) \cup CharsOf(DIGITS)

\* get_order_details_by_id without the fullmatch test of the cleaned id.
OrderLookupCleaned_Unvalidated(orders, shopid_clean, today) ==
    IF shopid_clean \notin DOMAIN orders
    THEN [text |-> "I'm sorry, but I couldn't find an order with the ID '" \o shopid_clean
                     \o "'. Please double-check the ID and try again, or contact our support team for more help!",
          queried |-> <<shopid_clean>>]
    ELSE [text |-> OrderFound(orders[shopid_clean], today),
          queried |-> <<shopid_clean>>]

\* get_order_details_by_id from shopid_clean on.  queried lists the shop ids
\* orders_collection.find_one was called with.
OrderLookupCleaned(orders, shopid_clean, today) ==
    IF ~IsShopId(shopid_clean)
    THEN [text |-> "I couldn't find an order with that ID: '" \o shopid_clean
                     \o "'. Could you double-check it for me? Shop IDs usually contain letters and numbers only.",
          queried |-> <<>>]
    ELSE IF shopid_clean \notin DOMAIN orders
    THEN [text |-> "I'm sorry, but I couldn't find an order with the ID '" \o shopid_clean
                     \o "'. Please double-check the ID and try again, or contact our support team for more help!",
          queried |-> <<shopid_clean>>]
    ELSE [text |-> OrderFound(orders[shopid_clean], today),
          queried |-> <<shopid_clean>>]

\* initialized: orders_collection is not None; orders: its documents by
\* shopid; today: datetime.today().date().
get_order_details_by_id(initialized, orders, shopid, today) ==
    IF ~initialized
    THEN [text |-> "I'm so sorry, but the order lookup service is temporarily unavailable. Please try again in a little while!",
          queried |-> <<>>]
    ELSE IF shopid = None \/ shopid = ""
    THEN [text |-> "It looks like a Shop ID wasn't included in your message. To check your order, please provide your Shop ID (e.g., 'What's the status of order SHOPID123?').",
          queried |-> <<>>]
    ELSE LET Cleaned(shopid_clean) == OrderLookupCleaned(orders, shopid_clean, today)
         IN  Bind(str_upper(str_strip(shopid)), Cleaned)

\* ------------------------------------------------------------------------
\* Requests the model issues
\* ------------------------------------------------------------------------

Customers == {"c1", "c2"}

Sessions == {"s1", "s2"}

\* "my wifi is not working": technical_support, frustrated
\* "thank you":              general_inquiry, satisfied
Queries == {"my wifi is not working", "thank you"}

\* technical_support is in scope for technical and out of scope for finance
ChatDomains == {"technical", "finance"}

\* What the LLM collaborator does with a call: it raises, or it returns a text.
LLMFailure == [ok |-> FALSE, text |-> ""]

LLMReplies == {"Please restart your router."}

LLMOutcomes == {LLMFailure} \cup { [ok |-> TRUE, text |-> t] : t \in LLMReplies }

TitleReplies == {" \"Wifi outage\"\n"}

TitleOutcomes == {LLMFailure} \cup { [ok |-> TRUE, text |-> t] : t \in TitleReplies }

\* ChatRequest.customer_profile as a client sends it: the id and the defaults
\* of the CustomerProfile model.
ClientProfile(customer_id) ==
    [customer_id |-> customer_id,
     previous_interactions |-> <<>>,
     purchase_history |-> <<>>,
     preference_settings |-> <<>>,
     sentiment_history |-> <<>>,
     active_case_id |-> None]

\* A conversation_history of k turn pairs made up by the client.
FabricatedHistory(k) ==
    [n \in 1..(2 * k) |->
        IF n % 2 = 1
        THEN [role |-> "user", content |-> "earlier question", timestamp |-> 0]
        ELSE [role |-> "bot", content |-> "earlier answer", timestamp |-> 0]]

\* Texts the functions are called with on their own: one or more for each
\* return path of the classifier.
\*   greeting:                 "hello", "hi my internet not working",
\*                             "hello my order number is abc123",
\*                             "  HELLO wifi  ", "history of my bill"
\*   order_status, pattern 1:  "my order number is abc123"
\*   order_status, pattern 2:  "tracking: #zx9", "refund status"
\*   order_status, pattern 3:  "abc123 order"
\*   order_status, keywords:   "when is the delivery"
\*   the other keyword lists:  "my internet not working", "setup my device",
\*                             "billing inquiry", "help me install",
\*                             "upgrade my plan", "i need a loan", "book a hotel"
\*   no keyword:               "thank you"
ClassifierQueries ==
    {"hello", "hi my internet not working", "hello my order number is abc123",
     "  HELLO wifi  ", "history of my bill", "my order number is abc123",
     "tracking: #zx9", "refund status", "abc123 order", "when is the delivery",
     "my internet not working", "setup my device", "billing inquiry", "help me install",
     "upgrade my plan", "i need a loan", "book a hotel", "thank you"}

\* The texts of the chat requests whose prompt is composed.
ComposerQueries ==
    {"hello", "hi my internet not working", "my order number is abc123", "refund status",
     "when is the delivery", "my internet not working", "billing inquiry", "thank you"}

AllQueries == Queries \cup ClassifierQueries

Sentiments == {"frustrated", "satisfied", "neutral"}

Urgencies == {"low", "high"}

\* The orders collection by shopid, and the day the lookups run.
SampleOrders ==
    ("ABC123" :> [product_name |-> "Router", payment_status |-> "Paid", delivery_date |-> "2025-03-15"])
      @@ ("ZX9" :> [product_name |-> None, payment_status |-> None, delivery_date |-> "15/03/2025"])

SampleToday == [ok |-> TRUE, year |-> 2025, month |-> 3, day |-> 10]

\* shopid arguments: none, empty, blank, malformed, well-formed (stored or not)
ShopIdInputs == {None, "", "   ", "shop-123!", "ab 12", " abc123 ", "zx9", "nosuch"}

\* shop_id_for_order_lookup values a client sends
ExplicitShopIds == {None, "shop-123!", "abc123"}

\* The pure functions tabulated over the requests the model issues (each
\* entry is the function's value; the tables only save recomputation).
IntentOf == [q \in AllQueries |-> determine_intent_and_urgency(q)]

SentimentOf == [q \in AllQueries |-> analyze_sentiment(q)]

FaqOf == [q \in AllQueries |-> [d \in Domains |-> get_knowledge_base_info(q, d)]]

\* ------------------------------------------------------------------------
\* State
\* ------------------------------------------------------------------------

VARIABLES
    mongo_connected,       \* cases_collection and customers_collection are not None
    genai_initialized,     \* the genai client is not None
    customers_collection,  \* customer id -> profile document
    cases_collection,      \* case id -> case document
    now,                   \* datetime.now(), one tick per request
    request,               \* the request handled last
    response,              \* the response (or HTTP error) it got
    trace,                 \* what the handler did on the way
    handlers               \* the handlers that reached their await of the LLM

vars == <<mongo_connected, genai_initialized, customers_collection, cases_collection,
          now, request, response, trace, handlers>>

store == <<customers_collection, cases_collection>>

EmptyCollection == [k \in {} |-> None]

\* outcome: how the handler ended; llm_called / llm_failed: the LLM was
\* invoked / raised; policy_evaluated / should_escalate: manage_case_escalation
\* was called / what it returned; current_turn / urgency: the turn number
\* and the urgency it was called with (0 and None when it was not called).
Trace(outcome) ==
    [outcome |-> outcome, llm_called |-> FALSE, llm_failed |-> FALSE,
     policy_evaluated |-> FALSE, should_escalate |-> FALSE,
     current_turn |-> 0, urgency |-> None]

\* The process only serves requests once genai.configure succeeded (module
\* start-up raises RuntimeError otherwise); the Mongo collections are None
\* when MONGODB_URI is missing or the ping fails.
Init ==
    /\ mongo_connected \in BOOLEAN
    /\ genai_initialized = TRUE
    /\ customers_collection = EmptyCollection
    /\ cases_collection = EmptyCollection
    /\ now = 0
    /\ request = [op |-> "none"]
    /\ response = [status_code |-> 0]
    /\ trace = Trace("none")
    /\ handlers = <<>>

HTTPException(status_code, detail) == [status_code |-> status_code, detail |-> detail]

\* collection.insert_one / the $set of update_one on one document
Put(collection, id, doc) == [k \in DOMAIN collection \cup {id} |-> IF k = id THEN doc ELSE collection[k]]

\* ------------------------------------------------------------------------
\* POST /chat (chat_endpoint)
\* ------------------------------------------------------------------------

ChatRequest(customer_id, session_id, user_query, domain, conversation_history) ==
    [op |-> "chat",
     user_query |-> user_query,
     session_id |-> session_id,
     customer_profile |-> ClientProfile(customer_id),
     conversation_history |-> conversation_history,
     shop_id_for_order_lookup |-> None,
     domain |-> domain]

\* Load or create the customer profile (long-term memory).
LoadOrCreateProfile(customers, req) ==
    LET customer_id == req.customer_profile.customer_id
    IN  IF customer_id \in DOMAIN customers
        THEN [customers |-> customers, customer_profile |-> customers[customer_id]]
        ELSE [customers |-> Put(customers, customer_id, req.customer_profile),
              customer_profile |-> req.customer_profile]

\* cases_collection.find_one({"_id": case_id, "customer_id": customer_id}) finds a document
CaseFound(cases, case_id, customer_id) ==
    /\ case_id \in DOMAIN cases
    /\ cases[case_id].customer_id = customer_id

NewCase(req, t) ==
    [session_id |-> req.session_id,
     customer_id |-> req.customer_profile.customer_id,
     status |-> "open",
     created_at |-> t,
     last_updated |-> t,
     initial_query |-> req.user_query,
     conversation_history |-> <<>>,
     escalated |-> FALSE,
     domain |-> req.domain,
     summary |-> None]

\* RefusalResponse without case_status="closed": ChatResponse's default applies.
RefusalResponse_DefaultStatus(domain) ==
    [status_code |-> 200,
     bot_response |-> "I'm sorry, but I can only help with **" \o str_capitalize(domain)
                      \o "**-related queries here. To ask about something else, please return to the homepage and select a different chat domain!",
     case_status |-> "open",
     case_id |-> None,
     faq_suggestion |-> None,
     sentiment_detected |-> "unanswered"]

RefusalResponse(domain) ==
    [status_code |-> 200,
     bot_response |-> "I'm sorry, but I can only help with **" \o str_capitalize(domain)
                      \o "**-related queries here. To ask about something else, please return to the homepage and select a different chat domain!",
     case_status |-> "closed",
     case_id |-> None,
     faq_suggestion |-> None,
     sentiment_detected |-> "unanswered"]

\* The handler up to its await of the LLM: profile and case are loaded or
\* created, the query is classified and the domain restriction applied.
\* outcome: "duplicate_key" (insert_one raised), "denied", or "llm" (the
\* handler goes on to call the LLM).
ChatBegin(customers, cases, req, t) ==
    LET customer_id == req.customer_profile.customer_id
        case_id == req.session_id
        loaded == LoadOrCreateProfile(customers, req)
        found == CaseFound(cases, case_id, customer_id)
        duplicate == ~found /\ case_id \in DOMAIN cases
        current_case_data == IF found THEN cases[case_id] ELSE NewCase(req, t)
        cases1 == IF found \/ duplicate THEN cases ELSE Put(cases, case_id, current_case_data)
        customers1 ==
            IF found \/ duplicate THEN loaded.customers
            ELSE [loaded.customers EXCEPT ![customer_id].active_case_id = case_id]
        case_history == req.conversation_history
        Classified(classified) ==
            [customers |-> customers1,
             cases |-> cases1,
             outcome |-> IF duplicate THEN "duplicate_key"
                         ELSE IF ~DomainAllows(classified.intent, req.domain) THEN "denied"
                         ELSE "llm",
             customer_profile |-> loaded.customer_profile,
             current_case_data |-> current_case_data,
             intent |-> classified.intent,
             urgency |-> classified.urgency,
             shopid |-> classified.shopid,
             user_sentiment |-> SentimentOf[req.user_query],
             case_history |-> case_history,
             current_turn |-> (Len(case_history) \div 2) + 1]
    IN  Bind(IntentOf[req.user_query], Classified)

Apology ==
    "Oh dear, I seem to be having a little trouble at the moment. Please bear with me and try again in a bit, or feel free to reach out to our human support directly if it's urgent!"

\* The escalation branch without its addition to bot_response_text.
HandoffNotice_Omitted == ""

HandoffNotice ==
    "\n\n**Just a heads-up**: Based on our conversation, I think it might be best if a human agent steps in. I'm escalating this for you, and someone will review our chat and get in touch shortly!"

\* ------------------------------------------------------------------------
\* Prompt for the LLM (chat_endpoint, "Prepare Prompt for Gemini")
\* ------------------------------------------------------------------------

\* "\nQ: q\nA: a" for the entries n.. of a knowledge base
RECURSIVE KnowledgeExamplesFrom(_, _)
KnowledgeExamplesFrom(knowledge_base, n) ==
    IF n > Len(knowledge_base) THEN ""
    ELSE "\nQ: " \o knowledge_base[n][1] \o "\nA: " \o knowledge_base[n][2]
           \o KnowledgeExamplesFrom(knowledge_base, n + 1)

\* domain_prompts.get(domain, '') after the loop that adds the examples
domain_prompts(domain) ==
    CASE domain = "general" ->
           "You are a friendly customer support assistant. Your primary task is to answer general queries. You should also answer questions about order status."
             \o KnowledgeExamplesFrom(domain_knowledge_bases[domain], 1)
      [] domain = "technical" ->
           "You are a technical support agent. Your task is to help users with technical issues."
             \o KnowledgeExamplesFrom(domain_knowledge_bases[domain], 1)
      [] domain = "finance" ->
           "You are a finance support agent. Your task is to answer financial queries."
             \o KnowledgeExamplesFrom(domain_knowledge_bases[domain], 1)
      [] domain = "travel" ->
           "You are a travel assistant. Your task is to answer travel and hospitality queries."
             \o KnowledgeExamplesFrom(domain_knowledge_bases[domain], 1)
      [] OTHER -> ""

base_system_instruction(domain) ==
    "You are a friendly, empathetic, and professional customer support assistant. "
      \o "Your expertise is strictly limited to **" \o domain \o "**-related customer support queries. "
      \o domain_prompts(domain) \o "\n"
      \o "If a user asks something outside this domain, gently explain your scope and offer to assist with relevant topics. "
      \o "Maintain a conversational and approachable tone, like a helpful human agent. "
      \o "Be concise and actionable in your advice."

ModelAcknowledgement ==
    "Understood. I am ready to assist customers within these topics with a helpful and friendly tone."

\* "\n".join(texts[n:])
RECURSIVE JoinLinesFrom(_, _)
JoinLinesFrom(texts, n) ==
    IF n > Len(texts) THEN ""
    ELSE IF n = Len(texts) THEN texts[n]
    ELSE texts[n] \o "\n" \o JoinLinesFrom(texts, n + 1)

long_term_memory_summary(customer_profile) ==
    IF customer_profile.previous_interactions = <<>> THEN "N/A"
    ELSE "Past interactions summary:\n" \o JoinLinesFrom(customer_profile.previous_interactions, 1)

\* str() of the extracted_entities dict
EntitiesText(shopid) ==
    IF shopid = None THEN "{}" ELSE "{'shopid': '" \o shopid \o "'}"

\* The if/elif chain with the knowledge base test moved before order_status.
DirectiveKind_KnowledgeFirst(intent, current_turn, knowledge_info) ==
    IF intent = "greeting" /\ current_turn = 1 THEN "greeting"
    ELSE IF knowledge_info # NoArticle THEN "knowledge_base"
    ELSE IF intent = "order_status" THEN "order_status"
    ELSE "fallback"

\* Which branch of the if/elif chain sets final_llm_instruction_for_gemini.
DirectiveKind(intent, current_turn, knowledge_info) ==
    IF intent = "greeting" /\ current_turn = 1 THEN "greeting"
    ELSE IF intent = "order_status" THEN "order_status"
    ELSE IF knowledge_info # NoArticle THEN "knowledge_base"
    ELSE "fallback"

GreetingInstruction ==
    "The user has just started the conversation or said hello. Provide a very brief, friendly greeting and ask how you can help them today. Do NOT identify yourself as a virtual assistant or AI. Respond concisely."

OrderStatusInstruction(order_details_tool_output) ==
    "The customer asked for order status. You've performed a lookup and the tool returned the following information:\n\n"
      \o order_details_tool_output \o "\n\n"
      \o "Your task is to summarize this information clearly and concisely for the user, focusing on the product, payment, and delivery status. "
      \o "If the tool indicates 'No order found' or an error, politely explain this and ask for a correct ID. "
      \o "Maintain a warm and natural tone. Conclude by offering further assistance."

KnowledgeInstruction(user_query, knowledge_info) ==
    "The user asked about '" \o user_query \o "'. You found relevant information in your knowledge base: '"
      \o knowledge_info \o "'. "
      \o "Present this information in a friendly, helpful, and human-like way. "
      \o "End by asking if that was what they were looking for or if they need more help. Be concise."

FallbackInstruction(req, b) ==
    "Customer Query: " \o req.user_query \o "\n"
      \o "Customer ID: " \o b.customer_profile.customer_id \o "\n"
      \o "Long-term memory: " \o long_term_memory_summary(b.customer_profile) \o "\n"
      \o "Customer's current sentiment: " \o b.user_sentiment \o "\n"
      \o "Detected intent: " \o b.intent \o ". Urgency: " \o b.urgency \o ".\n"
      \o "Extracted entities: " \o EntitiesText(b.shopid) \o "\n"

\* final_llm_instruction_for_gemini for the request req, b being ChatBegin
\* of the request.  order_lookups lists the ids get_order_details_by_id was
\* called with, orders_queried the ids the order store was queried for.
FinalInstruction(req, b, initialized, orders, today) ==
    LET Chosen(kind) ==
            CASE kind = "greeting" ->
                   [text |-> GreetingInstruction, order_lookups |-> <<>>, orders_queried |-> <<>>]
              [] kind = "order_status" ->
                   LET shopid_for_lookup ==
                           IF b.shopid # None /\ b.shopid # "" THEN b.shopid
                           ELSE req.shop_id_for_order_lookup
                       Embedded(order_details) ==
                           [text |-> OrderStatusInstruction(order_details.text),
                            order_lookups |-> <<shopid_for_lookup>>,
                            orders_queried |-> order_details.queried]
                   IN  Bind(get_order_details_by_id(initialized, orders, shopid_for_lookup, today), Embedded)
              [] kind = "knowledge_base" ->
                   [text |-> KnowledgeInstruction(req.user_query, FaqOf[req.user_query][req.domain]),
                    order_lookups |-> <<>>, orders_queried |-> <<>>]
              [] kind = "fallback" ->
                   [text |-> FallbackInstruction(req, b), order_lookups |-> <<>>, orders_queried |-> <<>>]
    IN  Bind(DirectiveKind(b.intent, b.current_turn, FaqOf[req.user_query][req.domain]), Chosen)

\* gemini_messages: the instruction pair, the history, the final instruction.
gemini_messages(req, b, final_llm_instruction_for_gemini) ==
    << [role |-> "user", parts |-> base_system_instruction(req.domain)],
       [role |-> "model", parts |-> ModelAcknowledgement] >>
      \o [n \in 1..Len(b.case_history) |->
            [role |-> IF b.case_history[n].role = "bot" THEN "model" ELSE "user",
             parts |-> b.case_history[n].content]]
      \o << [role |-> "user", parts |-> final_llm_instruction_for_gemini] >>

\* The prompt the handler sends to the LLM for the request req.
ComposePrompt(req, b, initialized, orders, today) ==
    LET Composed(final) ==
            [gemini_messages |-> gemini_messages(req, b, final.text),
             order_lookups |-> final.order_lookups,
             orders_queried |-> final.orders_queried]
    IN  Bind(FinalInstruction(req, b, initialized, orders, today), Composed)

\* current_case_data["escalated"] after the try/except around the LLM call:
\* the except branch forces it to True.
\* The except branch without current_case_data["escalated"] = True.
EscalatedAfterLLM_NotForced(llm, current_case_data) == current_case_data.escalated

EscalatedAfterLLM(llm, current_case_data) ==
    IF llm.ok THEN current_case_data.escalated ELSE TRUE

\* The update that appends the turn's two entries to the history the store
\* holds (a $push) instead of writing the handler's own list.
PersistTurn_PushToStored(cases, case_id, case_history, t, case_status, escalated) ==
    IF case_id \in DOMAIN cases
    THEN [cases EXCEPT ![case_id] =
            [@ EXCEPT !.conversation_history =
                          @ \o SubSeq(case_history, Len(case_history) - 1, Len(case_history)),
                      !.last_updated = t,
                      !.status = case_status,
                      !.escalated = escalated]]
    ELSE cases

\* cases_collection.update_one({"_id": case_id}, {"$set": {...}}): the four
\* fields are written from the handler's locals; nothing changes when no
\* document has the id.
PersistTurn(cases, case_id, case_history, t, case_status, escalated) ==
    IF case_id \in DOMAIN cases
    THEN [cases EXCEPT ![case_id] =
            [@ EXCEPT !.conversation_history = case_history,
                      !.last_updated = t,
                      !.status = case_status,
                      !.escalated = escalated]]
    ELSE cases

\* The handler from the LLM's answer on: escalation, the turn pair, the
\* update of the case document and the response.  b is the result of
\* ChatBegin, cases the collection at the time of the update.
ChatFinish(cases, b, req, llm, t) ==
    LET case_id == req.session_id
        escalated0 == EscalatedAfterLLM(llm, b.current_case_data)
        should_escalate ==
            manage_case_escalation(b.current_turn, b.intent, b.urgency, b.user_sentiment, escalated0)
        newly == should_escalate /\ ~escalated0
        escalated1 == IF newly THEN TRUE ELSE escalated0
        case_status == IF newly THEN "escalated_to_human" ELSE b.current_case_data.status
        text0 == IF llm.ok THEN llm.text ELSE Apology
        bot_response_text == IF newly THEN text0 \o HandoffNotice ELSE text0
        case_history ==
            b.case_history
              \o << [role |-> "user", content |-> req.user_query, timestamp |-> t],
                    [role |-> "bot", content |-> bot_response_text, timestamp |-> t] >>
    IN  [cases |-> PersistTurn(cases, case_id, case_history, t, case_status, escalated1),
         response |->
            [status_code |-> 200,
             bot_response |-> bot_response_text,
             case_status |-> case_status,
             case_id |-> case_id,
             faq_suggestion |-> FaqOf[req.user_query][req.domain],
             sentiment_detected |-> b.user_sentiment],
         trace |->
            [outcome |-> "turn", llm_called |-> TRUE, llm_failed |-> ~llm.ok,
             policy_evaluated |-> TRUE, should_escalate |-> should_escalate,
             current_turn |-> b.current_turn, urgency |-> b.urgency]]

\* genai is None, or cases_collection is None or customers_collection is None
ChatServiceUnavailable == ~genai_initialized \/ ~mongo_connected

\* 503 before anything is read
ChatUnavailable(req) ==
    /\ ChatServiceUnavailable
    /\ response' =
         IF ~genai_initialized
         THEN HTTPException(503, "Google Gemini client is not initialized. Check server logs.")
         ELSE HTTPException(503, "MongoDB collections for cases and customers are not initialized. Check server logs.")
    /\ trace' = Trace("unavailable")
    /\ UNCHANGED store

\* insert_one of the new case raises DuplicateKeyError: the session id is the
\* _id of a case of another customer.  The exception is not handled.
\* In the next three, b is ChatBegin of the request on the current store.
ChatDuplicateKey(req, b) ==
    /\ b.outcome = "duplicate_key"
    /\ customers_collection' = b.customers
    /\ cases_collection' = b.cases
    /\ response' = HTTPException(500, "Internal Server Error")
    /\ trace' = Trace("error")

ChatDenied(req, b) ==
    /\ b.outcome = "denied"
    /\ customers_collection' = b.customers
    /\ cases_collection' = b.cases
    /\ response' = RefusalResponse(req.domain)
    /\ trace' = Trace("denied")

ChatTurn(req, b) ==
    /\ b.outcome = "llm"
    /\ \E llm \in LLMOutcomes :
         \E f \in {ChatFinish(b.cases, b, req, llm, now + 1)} :
             /\ customers_collection' = b.customers
             /\ cases_collection' = f.cases
             /\ response' = f.response
             /\ trace' = f.trace

\* The conversation_history a client may send with a request for a session:
\* what the store holds for the session (nothing for a new session), or a
\* history it made up.
ClientHistories(session_id) ==
    { IF session_id \in DOMAIN cases_collection
      THEN cases_collection[session_id].conversation_history
      ELSE <<>>,
      FabricatedHistory(MaxClientTurns) }

\* The handler on the request req.
ChatHandler(req) ==
    /\ now' = now + 1
    /\ request' = req
    /\ UNCHANGED <<mongo_connected, genai_initialized, handlers>>
    /\ \/ ChatUnavailable(req)
       \/ /\ ~ChatServiceUnavailable
          /\ \E b \in {ChatBegin(customers_collection, cases_collection, req, now + 1)} :
               \/ ChatDuplicateKey(req, b)
               \/ ChatDenied(req, b)
               \/ ChatTurn(req, b)

chat_endpoint ==
    \E customer_id \in Customers, session_id \in Sessions, user_query \in Queries, domain \in ChatDomains :
      \E conversation_history \in ClientHistories(session_id) :
        \E req \in {ChatRequest(customer_id, session_id, user_query, domain, conversation_history)} :
            /\ now < MaxClock
            /\ ChatHandler(req)

\* ------------------------------------------------------------------------
\* POST /resolve_case (resolve_case_endpoint)
\* ------------------------------------------------------------------------

\* response.text.strip().replace('"', '')
TitleOf(text) ==
    LET Unquote(stripped) == str_remove(stripped, "\"")
    IN  Bind(str_strip(text), Unquote)

FallbackTitle(case_id, t) ==
    "Case " \o case_id \o " was resolved on " \o ToString(t)
      \o ". The primary issue was not automatically summarized."


\* resolve_case_endpoint without its check of the collections.
ResolveServiceUnavailable_Unchecked == FALSE

\* cases_collection is None or customers_collection is None
ResolveServiceUnavailable == ~mongo_connected

\* The status test with "resolved" left out of the list.
AlreadyResolved_ClosedOnly(case) == case.status \in {"closed"}

\* case.get("status") in ["resolved", "closed"]
AlreadyResolved(case) == case.status \in {"resolved", "closed"}

ResolveUnavailable(case_id) ==
    /\ ResolveServiceUnavailable
    /\ response' = HTTPException(503, "MongoDB collections for cases and customers are not initialized.")
    /\ trace' = Trace("unavailable")
    /\ UNCHANGED store

ResolveNotFound(case_id) ==
    /\ ~ResolveServiceUnavailable
    /\ case_id \notin DOMAIN cases_collection
    /\ response' = HTTPException(404, "Case not found.")
    /\ trace' = Trace("not_found")
    /\ UNCHANGED store

ResolveAlready(case_id) ==
    /\ ~ResolveServiceUnavailable
    /\ case_id \in DOMAIN cases_collection
    /\ AlreadyResolved(cases_collection[case_id])
    /\ response' = [status_code |-> 200, message |-> "Case " \o case_id \o " is already resolved."]
    /\ trace' = Trace("already_resolved")
    /\ UNCHANGED store

\* $push previous_interactions and $unset active_case_id on the owner's
\* profile; update_one changes nothing when no document matches.
PushSummary_KeepActive(customers, customer_id, summary_text) ==
    IF customer_id \in DOMAIN customers
    THEN [customers EXCEPT ![customer_id] =
            [@ EXCEPT !.previous_interactions = Append(@, summary_text)]]
    ELSE customers

PushSummary(customers, customer_id, summary_text) ==
    IF customer_id \in DOMAIN customers
    THEN [customers EXCEPT ![customer_id] =
            [@ EXCEPT !.previous_interactions = Append(@, summary_text),
                      !.active_case_id = None]]
    ELSE customers

\* The status written with "closed", the other value the handler's own status
\* test accepts.
ResolvedStatus_Closed == "closed"

\* the status resolve_case_endpoint $sets on the case
ResolvedStatus == "resolved"

ResolveCase(case_id) ==
    /\ ~ResolveServiceUnavailable
    /\ case_id \in DOMAIN cases_collection
    /\ ~AlreadyResolved(cases_collection[case_id])
    /\ \E llm \in TitleOutcomes :
         LET case == cases_collection[case_id]
             summary_text == IF llm.ok THEN TitleOf(llm.text) ELSE FallbackTitle(case_id, now + 1)
         IN  /\ customers_collection' = PushSummary(customers_collection, case.customer_id, summary_text)
             /\ cases_collection' =
                  [cases_collection EXCEPT ![case_id] =
                      [@ EXCEPT !.status = ResolvedStatus, !.summary = summary_text]]
             /\ response' = [status_code |-> 200,
                             message |-> "Case " \o case_id \o " resolved and summarized in customer's long-term memory."]
             /\ trace' = [Trace("resolved") EXCEPT !.llm_called = TRUE, !.llm_failed = ~llm.ok]

\* The handler on the request to resolve case_id.
ResolveHandler(case_id) ==
    /\ now' = now + 1
    /\ request' = [op |-> "resolve", case_id |-> case_id]
    /\ UNCHANGED <<mongo_connected, genai_initialized, handlers>>
    /\ \/ ResolveUnavailable(case_id)
       \/ ResolveNotFound(case_id)
       \/ ResolveAlready(case_id)
       \/ ResolveCase(case_id)

resolve_case_endpoint ==
    \E case_id \in Sessions :
        /\ now < MaxClock
        /\ ResolveHandler(case_id)

Next == chat_endpoint \/ resolve_case_endpoint

Spec == Init /\ [][Next]_vars

\* ------------------------------------------------------------------------
\* The life of one case: the same two handlers, all requests on one session
\* id, followed over more requests.
\* ------------------------------------------------------------------------

LifeSession == "s1"

LifeQueries == {"my wifi is not working"}

LifeChat ==
    \E customer_id \in Customers, user_query \in LifeQueries, domain \in ChatDomains :
      \E conversation_history \in ClientHistories(LifeSession) :
        \E req \in {ChatRequest(customer_id, LifeSession, user_query, domain, conversation_history)} :
            /\ now < MaxLifeClock
            /\ ChatHandler(req)

LifeResolve ==
    /\ now < MaxLifeClock
    /\ ResolveHandler(LifeSession)

LifeNext == LifeChat \/ LifeResolve

LifeSpec == Init /\ [][LifeNext]_vars

\* ------------------------------------------------------------------------
\* Overlapping requests.  The handlers are coroutines of one event loop and
\* the pymongo calls block, so a handler gives way to another only at its
\* await of the LLM (send_message_async in chat_endpoint,
\* generate_content_async in resolve_case_endpoint).  Each handler is one
\* step up to that await and one step from the LLM's outcome on; handlers
\* keeps, for every handler that reached its await, the request, the locals
\* it holds across the await and where it stands.
\* ------------------------------------------------------------------------

MaxAsyncClock == 4

AsyncCustomer == "c1"

AsyncSession == "s1"

\* A handler at its await: started is the time of its first step, finished
\* and response are set by its second.
Suspended(op, req, locals, t) ==
    [op |-> op, pc |-> "await_llm", request |-> req, locals |-> locals,
     started |-> t, finished |-> 0, response |-> [status_code |-> 0]]

Completed(i, resp, t) ==
    [handlers EXCEPT ![i] = [@ EXCEPT !.pc = "done", !.finished = t, !.response = resp]]

\* chat_endpoint reaches send_message_async: the profile and the case it
\* loaded or created are in the store, nothing is returned yet.
ChatSuspend(req, b) ==
    /\ b.outcome = "llm"
    /\ customers_collection' = b.customers
    /\ cases_collection' = b.cases
    /\ response' = [status_code |-> 0]
    /\ trace' = Trace("await_llm")
    /\ handlers' = Append(handlers, Suspended("chat", req, b, now + 1))

\* chat_endpoint up to its await
ChatStart(req) ==
    /\ now' = now + 1
    /\ request' = req
    /\ UNCHANGED <<mongo_connected, genai_initialized>>
    /\ \/ ChatUnavailable(req) /\ UNCHANGED handlers
       \/ /\ ~ChatServiceUnavailable
          /\ \E b \in {ChatBegin(customers_collection, cases_collection, req, now + 1)} :
               \/ ChatDuplicateKey(req, b) /\ UNCHANGED handlers
               \/ ChatDenied(req, b) /\ UNCHANGED handlers
               \/ ChatSuspend(req, b)

\* chat_endpoint from the LLM's outcome on: the case document is updated
\* from the locals of before the await, whatever the store holds by now.
ChatResume(i) ==
    /\ handlers[i].op = "chat"
    /\ handlers[i].pc = "await_llm"
    /\ now' = now + 1
    /\ request' = handlers[i].request
    /\ UNCHANGED <<mongo_connected, genai_initialized, customers_collection>>
    /\ \E llm \in LLMOutcomes :
         \E f \in {ChatFinish(cases_collection, handlers[i].locals, handlers[i].request, llm, now + 1)} :
             /\ cases_collection' = f.cases
             /\ response' = f.response
             /\ trace' = f.trace
             /\ handlers' = Completed(i, f.response, now + 1)

\* resolve_case_endpoint reaches generate_content_async with the case it read
ResolveSuspend(case_id) ==
    /\ ~ResolveServiceUnavailable
    /\ case_id \in DOMAIN cases_collection
    /\ ~AlreadyResolved(cases_collection[case_id])
    /\ response' = [status_code |-> 0]
    /\ trace' = Trace("await_llm")
    /\ handlers' = Append(handlers, Suspended("resolve", [op |-> "resolve", case_id |-> case_id],
                                              [case |-> cases_collection[case_id]], now + 1))
    /\ UNCHANGED store

\* resolve_case_endpoint up to its await
ResolveStart(case_id) ==
    /\ now' = now + 1
    /\ request' = [op |-> "resolve", case_id |-> case_id]
    /\ UNCHANGED <<mongo_connected, genai_initialized>>
    /\ \/ ResolveUnavailable(case_id) /\ UNCHANGED handlers
       \/ ResolveNotFound(case_id) /\ UNCHANGED handlers
       \/ ResolveAlready(case_id) /\ UNCHANGED handlers
       \/ ResolveSuspend(case_id)

\* resolve_case_endpoint from the LLM's outcome on: the two update_one calls
ResolveResume(i) ==
    /\ handlers[i].op = "resolve"
    /\ handlers[i].pc = "await_llm"
    /\ now' = now + 1
    /\ request' = handlers[i].request
    /\ UNCHANGED <<mongo_connected, genai_initialized>>
    /\ \E llm \in TitleOutcomes :
         LET case_id == handlers[i].request.case_id
             case == handlers[i].locals.case
             summary_text == IF llm.ok THEN TitleOf(llm.text) ELSE FallbackTitle(case_id, now + 1)
             resp == [status_code |-> 200,
                      message |-> "Case " \o case_id \o " resolved and summarized in customer's long-term memory."]
         IN  /\ customers_collection' = PushSummary(customers_collection, case.customer_id, summary_text)
             /\ cases_collection' =
                  [cases_collection EXCEPT ![case_id] =
                      [@ EXCEPT !.status = ResolvedStatus, !.summary = summary_text]]
             /\ response' = resp
             /\ trace' = [Trace("resolved") EXCEPT !.llm_called = TRUE, !.llm_failed = ~llm.ok]
             /\ handlers' = Completed(i, resp, now + 1)

AsyncChatStart ==
    \E user_query \in Queries, domain \in ChatDomains :
      \E conversation_history \in ClientHistories(AsyncSession) :
        \E req \in {ChatRequest(AsyncCustomer, AsyncSession, user_query, domain, conversation_history)} :
            /\ now < MaxAsyncClock
            /\ ChatStart(req)

AsyncChatResume ==
    \E i \in DOMAIN handlers :
        /\ now < MaxAsyncClock
        /\ ChatResume(i)

AsyncResolveStart ==
    /\ now < MaxAsyncClock
    /\ ResolveStart(AsyncSession)

AsyncResolveResume ==
    \E i \in DOMAIN handlers :
        /\ now < MaxAsyncClock
        /\ ResolveResume(i)

AsyncNext == AsyncChatStart \/ AsyncChatResume \/ AsyncResolveStart \/ AsyncResolveResume

AsyncSpec == Init /\ [][AsyncNext]_vars

\* ------------------------------------------------------------------------
\* The functions called on their own: request holds one call with its
\* arguments (the module globals a function reads are arguments too),
\* response what the call returns.
\* ------------------------------------------------------------------------

ClassifierCalls ==
    { [op |-> "determine_intent_and_urgency", query |-> q] : q \in ClassifierQueries }

PolicyCalls ==
    [op : {"manage_case_escalation"}, current_turn : 1..MaxPolicyTurn, intent : Intents,
     urgency : Urgencies, sentiment : Sentiments, escalated_in_session : BOOLEAN]

LookupCalls ==
    [op : {"get_order_details_by_id"}, initialized : BOOLEAN, orders : {SampleOrders},
     shopid : ShopIdInputs, today : {SampleToday}]

\* Chat requests of a customer the store does not know yet: the profile the
\* client sends becomes the customer's profile.
ComposerCalls ==
    { [op |-> "compose",
       chat |-> [ChatRequest("c1", "s1", q, d, h) EXCEPT
                    !.shop_id_for_order_lookup = x,
                    !.customer_profile.previous_interactions = p],
       orders |-> SampleOrders,
       today |-> SampleToday] :
        q \in ComposerQueries, d \in Domains, h \in {<<>>, FabricatedHistory(1)},
        x \in ExplicitShopIds, p \in {<<>>, <<"Wifi outage", "Late invoice">>} }

CallInit ==
    /\ mongo_connected = TRUE
    /\ genai_initialized = TRUE
    /\ customers_collection = EmptyCollection
    /\ cases_collection = EmptyCollection
    /\ now = 0
    /\ \/ request \in ClassifierCalls
       \/ request \in PolicyCalls
       \/ request \in LookupCalls
       \/ request \in ComposerCalls
    /\ response = [status_code |-> 0]
    /\ trace = Trace("none")
    /\ handlers = <<>>

CallReturn(result) ==
    /\ trace.outcome = "none"
    /\ response' = result
    /\ trace' = Trace("returned")
    /\ UNCHANGED <<mongo_connected, genai_initialized, customers_collection, cases_collection,
                   now, request, handlers>>

CallClassifier ==
    /\ request.op = "determine_intent_and_urgency"
    /\ CallReturn([result |-> determine_intent_and_urgency(request.query)])

CallPolicy ==
    /\ request.op = "manage_case_escalation"
    /\ CallReturn([result |->
            manage_case_escalation(request.current_turn, request.intent, request.urgency,
                                   request.sentiment, request.escalated_in_session)])

CallOrderLookup ==
    /\ request.op = "get_order_details_by_id"
    /\ CallReturn(get_order_details_by_id(request.initialized, request.orders,
                                          request.shopid, request.today))

\* The prompt of a chat request that passes the domain restriction.
CallComposer ==
    /\ request.op = "compose"
    /\ \E b \in {ChatBegin(customers_collection, cases_collection, request.chat, now + 1)} :
         /\ b.outcome = "llm"
         /\ CallReturn(ComposePrompt(request.chat, b, mongo_connected, request.orders, request.today))

CallNext == CallClassifier \/ CallPolicy \/ CallOrderLookup \/ CallComposer

CallSpec == CallInit /\ [][CallNext]_vars

\* ------------------------------------------------------------------------
\* Properties
\* ------------------------------------------------------------------------

\* The last request was a chat request that reached the domain restriction
\* and whose (intent, requested domain) pair the restriction denies.
DeniedChat ==
    /\ request.op = "chat"
    /\ response.status_code = 200
    /\ ~DomainAllows(IntentOf[request.user_query].intent, request.domain)

\* C1: a chat request denied by the domain restriction leaves the document
\* store unchanged: no customer profile and no case is created or modified.
C1_DeniedChatLeavesStoreUnchanged ==
    [][DeniedChat' => store' = store]_vars

ExpectedRefusalText(domain) ==
    CASE domain = "technical" ->
           "I'm sorry, but I can only help with **Technical**-related queries here. To ask about something else, please return to the homepage and select a different chat domain!"
      [] domain = "finance" ->
           "I'm sorry, but I can only help with **Finance**-related queries here. To ask about something else, please return to the homepage and select a different chat domain!"

\* C2: a denied chat request returns the fixed refusal (case_status closed, no
\* case_id, no faq_suggestion, sentiment_detected unanswered); the LLM is not
\* invoked and the escalation policy not evaluated for it.
C2_DeniedChatShortCircuits ==
    DeniedChat =>
        /\ response.bot_response = ExpectedRefusalText(request.domain)
        /\ response.case_status = "closed"
        /\ response.case_id = None
        /\ response.faq_suggestion = None
        /\ response.sentiment_detected = "unanswered"
        /\ ~trace.llm_called
        /\ ~trace.policy_evaluated

C2_Witness ==
    /\ DeniedChat
    /\ trace.outcome = "denied"
    /\ request.session_id \in DOMAIN cases_collection

\* C3: with requests handled one at a time, once a case's stored escalated
\* flag is true it stays true under every chat and resolve request, and every
\* later evaluation of the escalation policy for the case returns true.
C3_EscalationMonotonic ==
    [][\A s \in DOMAIN cases_collection :
          cases_collection[s].escalated =>
            /\ s \in DOMAIN cases_collection'
            /\ cases_collection'[s].escalated
            /\ (request'.op = "chat" /\ request'.session_id = s /\ trace'.policy_evaluated)
                 => trace'.should_escalate]_vars

\* A turn on a case that was escalated before the turn: the LLM answered and
\* the answer carries no hand-off notice, yet the case is escalated.
C3_Witness ==
    /\ request.op = "chat"
    /\ trace.outcome = "turn"
    /\ ~trace.llm_failed
    /\ trace.should_escalate
    /\ response.bot_response \in LLMReplies
    /\ cases_collection[request.session_id].escalated

\* C4: in every stored case, escalated = true implies status is
\* escalated_to_human or resolved.
C4_EscalatedImpliesStatus ==
    \A s \in DOMAIN cases_collection :
        cases_collection[s].escalated =>
            cases_collection[s].status \in {"escalated_to_human", "resolved"}

\* C5: once a case's stored status is resolved or closed, no chat request
\* changes its stored conversation_history.
C5_NoTurnsAfterResolved ==
    [][\A s \in DOMAIN cases_collection :
          (cases_collection[s].status \in {"resolved", "closed"} /\ request'.op = "chat")
            => cases_collection'[s].conversation_history = cases_collection[s].conversation_history]_vars

\* C6: once a case's stored status is resolved, no chat or resolve request
\* changes the stored status.
C6_ResolvedIsTerminal ==
    [][\A s \in DOMAIN cases_collection :
          cases_collection[s].status = "resolved"
            => cases_collection'[s].status = "resolved"]_vars

\* C7: case resolution on a case whose stored status is resolved or closed
\* returns the "already resolved" confirmation, calls no LLM and changes
\* neither the case nor any customer profile.
C7_ResolveResolvedIsNoOp ==
    [][(/\ request'.op = "resolve"
        /\ mongo_connected
        /\ request'.case_id \in DOMAIN cases_collection
        /\ cases_collection[request'.case_id].status \in {"resolved", "closed"})
         => /\ response'.status_code = 200
            /\ response'.message = "Case " \o request'.case_id \o " is already resolved."
            /\ ~trace'.llm_called
            /\ store' = store]_vars

C7_Witness ==
    /\ request.op = "resolve"
    /\ trace.outcome = "already_resolved"
    /\ cases_collection[request.case_id].status = "resolved"

\* The titles the model's LLM replies yield after strip() and removal of
\* the double quotes.
ExpectedTitles == {"Wifi outage"}

\* C8: case resolution on a case whose status is open or escalated_to_human
\* succeeds whether the title LLM call succeeds or fails: the case gets
\* status resolved and summary T, the owner's previous_interactions gets
\* exactly T appended and its active_case_id is cleared, T being the LLM
\* title or, on failure, the placeholder title.
C8_ResolveSucceeds ==
    [][(/\ request'.op = "resolve"
        /\ mongo_connected
        /\ request'.case_id \in DOMAIN cases_collection
        /\ cases_collection[request'.case_id].status \in {"open", "escalated_to_human"})
         => LET id == request'.case_id
                owner == cases_collection[id].customer_id
                T == cases_collection'[id].summary
            IN  /\ response'.status_code = 200
                /\ trace'.llm_called
                /\ IF trace'.llm_failed
                   THEN T = "Case " \o id \o " was resolved on " \o ToString(now')
                              \o ". The primary issue was not automatically summarized."
                   ELSE T \in ExpectedTitles
                /\ cases_collection'[id].status = "resolved"
                /\ owner \in DOMAIN customers_collection
                /\ customers_collection'[owner].previous_interactions
                     = Append(customers_collection[owner].previous_interactions, T)
                /\ customers_collection'[owner].active_case_id = None]_vars

\* A resolution whose title call failed, on a case that had been escalated.
C8_Witness ==
    /\ request.op = "resolve"
    /\ trace.outcome = "resolved"
    /\ trace.llm_failed
    /\ cases_collection[request.case_id].escalated
    /\ cases_collection[request.case_id].status = "resolved"

\* C9: when the LLM call fails during a non-denied chat turn the request
\* still succeeds: the bot response is the fixed apology, the case's stored
\* escalated flag is true, and the turn is persisted (user entry, apology
\* entry, last_updated refreshed).
C9_LLMFailureRecovered ==
    (request.op = "chat" /\ trace.llm_failed) =>
        LET s == request.session_id
        IN  /\ response.status_code = 200
            /\ response.bot_response
                 = "Oh dear, I seem to be having a little trouble at the moment. Please bear with me and try again in a bit, or feel free to reach out to our human support directly if it's urgent!"
            /\ s \in DOMAIN cases_collection
            /\ cases_collection[s].escalated
            /\ cases_collection[s].conversation_history
                 = request.conversation_history
                     \o << [role |-> "user", content |-> request.user_query, timestamp |-> now],
                           [role |-> "bot", content |-> response.bot_response, timestamp |-> now] >>
            /\ cases_collection[s].last_updated = now

\* An LLM failure on a later turn of a case created by an earlier request.
C9_Witness ==
    /\ request.op = "chat"
    /\ trace.llm_failed
    /\ cases_collection[request.session_id].created_at < now
    /\ cases_collection[request.session_id].last_updated = now

PermittedIntents(domain) ==
    CASE domain = "general" -> {"general_inquiry", "greeting"}
      [] domain = "technical" -> {"technical_support", "installation_support", "greeting"}
      [] domain = "finance" -> {"finance_query", "billing_inquiry", "greeting"}
      [] domain = "travel" -> {"travel_hospitality_query", "greeting", "order_status"}

ExpectedAllowed(intent, domain) ==
    \/ intent \in PermittedIntents(domain)
    \/ (intent = "order_status" /\ domain = "general")
    \/ (intent = "general_inquiry" /\ domain # "general")

\* C11: the domain restriction is a total function of (intent, requested
\* domain): for each of the ten intents and four domains it allows exactly
\* when the intent is in the domain's permitted set, or is order_status in
\* general, or is general_inquiry outside general; and every chat request
\* that reaches the restriction is allowed or denied by that function
\* alone, whatever the store holds.
C11_GuardTotalDeterministic ==
    /\ \A intent \in Intents, domain \in Domains :
          GuardTable[intent, domain] = ExpectedAllowed(intent, domain)
    /\ (request.op = "chat" /\ trace.outcome \in {"denied", "turn"}) =>
          ((trace.outcome = "turn")
             = ExpectedAllowed(IntentOf[request.user_query].intent, request.domain))

\* A general_inquiry let through outside the general domain, on a case the
\* store holds as resolved.
C11_Witness ==
    /\ request.op = "chat"
    /\ trace.outcome = "turn"
    /\ IntentOf[request.user_query].intent = "general_inquiry"
    /\ request.domain # "general"
    /\ cases_collection[request.session_id].status = "resolved"

\* What the store holds for session s before a request: its history, its
\* escalated flag and its status (those of a case about to be created when
\* the store holds none).
StoredHistory(s) ==
    IF s \in DOMAIN cases_collection THEN cases_collection[s].conversation_history ELSE <<>>

StoredEscalated(s) ==
    IF s \in DOMAIN cases_collection THEN cases_collection[s].escalated ELSE FALSE

StoredStatus(s) ==
    IF s \in DOMAIN cases_collection THEN cases_collection[s].status ELSE "open"

EndsWith(text, suffix) ==
    /\ Len(text) >= Len(suffix)
    /\ SubSeq(text, Len(text) - Len(suffix) + 1, Len(text)) = suffix

ExpectedNotice ==
    "\n\n**Just a heads-up**: Based on our conversation, I think it might be best if a human agent steps in. I'm escalating this for you, and someone will review our chat and get in touch shortly!"

\* C14: a case's stored conversation_history is append-only: a non-denied
\* chat turn leaves the history stored before it followed by exactly two new
\* entries (user query, bot response), and every other request leaves the
\* stored history of every case as it was.
C14_HistoryAppendOnly ==
    [][/\ \A s \in DOMAIN cases_collection :
            s \in DOMAIN cases_collection'
       /\ \A s \in DOMAIN cases_collection' :
            IF request'.op = "chat" /\ request'.session_id = s /\ trace'.outcome = "turn"
            THEN cases_collection'[s].conversation_history
                   = StoredHistory(s)
                       \o << [role |-> "user", content |-> request'.user_query, timestamp |-> now'],
                             [role |-> "bot", content |-> response'.bot_response, timestamp |-> now'] >>
            ELSE cases_collection'[s].conversation_history = StoredHistory(s)]_vars

\* C16: on a non-denied turn whose LLM call succeeds, for a case stored as
\* not escalated: if the policy returns true the turn persists status
\* escalated_to_human and escalated true and the returned and stored bot
\* response ends with the hand-off notice; if it returns false, status and
\* flag are persisted unchanged and the response carries no notice.  On a
\* case stored as escalated no notice is appended and the status is kept.
C16_EscalationPersisted ==
    [][(request'.op = "chat" /\ trace'.outcome = "turn") =>
         LET s == request'.session_id
             case == cases_collection'[s]
             stored_bot == case.conversation_history[Len(case.conversation_history)]
         IN  /\ stored_bot.role = "bot"
             /\ stored_bot.content = response'.bot_response
             /\ response'.case_status = case.status
             /\ IF StoredEscalated(s)
                THEN /\ ~EndsWith(response'.bot_response, ExpectedNotice)
                     /\ case.status = StoredStatus(s)
                     /\ case.escalated
                ELSE ~trace'.llm_failed =>
                       IF trace'.should_escalate
                       THEN /\ case.status = "escalated_to_human"
                            /\ case.escalated
                            /\ EndsWith(response'.bot_response, ExpectedNotice)
                       ELSE /\ case.status = StoredStatus(s)
                            /\ ~case.escalated
                            /\ ~EndsWith(response'.bot_response, ExpectedNotice)]_vars

\* A turn that newly escalates its case: the notice follows the LLM's answer.
C16_Witness ==
    /\ request.op = "chat"
    /\ trace.outcome = "turn"
    /\ ~trace.llm_failed
    /\ trace.should_escalate
    /\ EndsWith(response.bot_response, ExpectedNotice)
    /\ response.case_status = "escalated_to_human"
    /\ cases_collection[request.session_id].status = "escalated_to_human"

\* C18: the classifier returns urgency low for every text, the escalation
\* policy is evaluated with urgency low in every chat turn, and every turn
\* that newly escalates a case through the policy has a turn number above 2.
C18_UrgencyAlwaysLow ==
    /\ \A q \in DOMAIN IntentOf : IntentOf[q].urgency = "low"
    /\ (request.op = "chat" /\ trace.policy_evaluated) =>
          /\ trace.urgency = "low"
          /\ EndsWith(response.bot_response, ExpectedNotice) => trace.current_turn > 2

\* A frustrated first turn (turn number 1) that is not escalated.
C18_Witness ==
    /\ request.op = "chat"
    /\ trace.policy_evaluated
    /\ ~trace.llm_failed
    /\ response.sentiment_detected = "frustrated"
    /\ trace.current_turn = 1
    /\ ~trace.should_escalate

\* C20: the turn number of a chat request is floor(n / 2) + 1 with n the
\* length of the case's stored conversation_history at the start of the
\* request; so a non-denied turn with an escalating intent on a case stored
\* as not escalated with at least two persisted turns escalates the case.
C20_TurnFromStoredHistory ==
    [][(request'.op = "chat" /\ trace'.outcome = "turn") =>
         LET s == request'.session_id
         IN  /\ trace'.current_turn = (Len(StoredHistory(s)) \div 2) + 1
             /\ (/\ ~StoredEscalated(s)
                 /\ Len(StoredHistory(s)) >= 4
                 /\ IntentOf[request'.user_query].intent \in
                      {"technical_support", "billing_inquiry", "finance_query",
                       "travel_hospitality_query", "order_status"})
                  => cases_collection'[s].escalated]_vars

\* C15: a case's summary is set exactly once: only a resolve request for
\* the case sets it, and once it is set no chat or resolve request changes
\* it or appends another summary for the case to the owner's
\* previous_interactions.
C15_SummarySetOnce ==
    [][\A s \in DOMAIN cases_collection :
          LET case == cases_collection[s]
              owner == case.customer_id
          IN  IF case.summary = None
              THEN cases_collection'[s].summary # None
                     => (request'.op = "resolve" /\ request'.case_id = s)
              ELSE /\ cases_collection'[s].summary = case.summary
                   /\ (request'.op = "resolve" /\ request'.case_id = s)
                        => customers_collection'[owner].previous_interactions
                             = customers_collection[owner].previous_interactions]_vars

StartsWith(text, prefix) == PrefixAt(text, prefix, 1)

GreetingPrefixes ==
    {"hi", "hello", "hey", "good morning", "good afternoon", "good evening"}

\* C12: in the classifier the greeting check comes first: a text whose
\* normalized (lower-cased, trimmed) form starts with a greeting pattern is
\* classified greeting with no entities, whatever else it contains; the
\* shop-id patterns decide only when no greeting pattern matches, and the
\* keyword lists only when no shop-id pattern matches either.
C12_GreetingPriority ==
    (request.op = "determine_intent_and_urgency" /\ trace.outcome = "returned") =>
        LET normalized == str_strip(str_lower(request.query))
            greeting == \E g \in GreetingPrefixes : StartsWith(normalized, g)
            shop == \E p \in 1..3 : ShopidSearch(p, normalized) # None
            r == response.result
        IN  /\ greeting => (r.intent = "greeting" /\ r.shopid = None)
            /\ (~greeting /\ shop) => (r.intent = "order_status" /\ r.shopid # None)
            /\ (~greeting /\ ~shop) => (r.intent = KeywordIntent(normalized) /\ r.shopid = None)

\* A greeting that also carries an order number phrase.
C12_Witness ==
    /\ request.op = "determine_intent_and_urgency"
    /\ trace.outcome = "returned"
    /\ request.query = "hello my order number is abc123"
    /\ response.result.intent = "greeting"
    /\ response.result.shopid = None

\* C13: the order lookup returns the service-unavailable message when the
\* order store is not initialized (whatever the id), the no-id message when
\* no id is given, and the "couldn't find" message when the id, trimmed and
\* upper-cased, is not made of A-Z and 0-9 only; on none of these paths is
\* the store queried, and the store is only ever queried for a well-formed id.
C13_OrderLookupNegativePaths ==
    (request.op = "get_order_details_by_id" /\ trace.outcome = "returned") =>
        LET cleaned == str_upper(str_strip(request.shopid))
            wellformed ==
                /\ cleaned # ""
                /\ \A i \in 1..Len(cleaned) : Char(cleaned, i) \in CharsOf(UPPER) \cup CharsOf(DIGITS)
        IN  /\ ~request.initialized =>
                 /\ response.text = "I'm so sorry, but the order lookup service is temporarily unavailable. Please try again in a little while!"
                 /\ response.queried = <<>>
            /\ (request.initialized /\ request.shopid \in {None, ""}) =>
                 /\ StartsWith(response.text, "It looks like a Shop ID wasn't included in your message.")
                 /\ response.queried = <<>>
            /\ (request.initialized /\ request.shopid \notin {None, ""} /\ ~wellformed) =>
                 /\ response.text = "I couldn't find an order with that ID: '" \o cleaned
                      \o "'. Could you double-check it for me? Shop IDs usually contain letters and numbers only."
                 /\ response.queried = <<>>
            /\ (request.initialized /\ request.shopid \notin {None, ""} /\ wellformed) =>
                 response.queried = <<cleaned>>

\* The malformed id of the specification's example.
C13_Witness ==
    /\ request.op = "get_order_details_by_id"
    /\ trace.outcome = "returned"
    /\ request.initialized
    /\ request.shopid = "shop-123!"
    /\ StartsWith(response.text, "I couldn't find an order with that ID: 'SHOP-123!'")
    /\ response.queried = <<>>

\* C17: the escalation policy returns true exactly when the prior flag is
\* true, or urgency is high and sentiment frustrated, or turn > 3 and
\* sentiment frustrated, or the intent is one of the five escalating intents
\* and turn > 2.
C17_EscalationPolicyTable ==
    (request.op = "manage_case_escalation" /\ trace.outcome = "returned") =>
        response.result =
            (\/ request.escalated_in_session
             \/ (request.urgency = "high" /\ request.sentiment = "frustrated")
             \/ (request.current_turn > 3 /\ request.sentiment = "frustrated")
             \/ (/\ request.intent \in {"technical_support", "billing_inquiry", "finance_query",
                                        "travel_hospitality_query", "order_status"}
                 /\ request.current_turn > 2))

\* Turn 3 of a frustrated refund_request conversation at low urgency: no
\* branch applies and the policy returns false.
C17_Witness ==
    /\ request.op = "manage_case_escalation"
    /\ trace.outcome = "returned"
    /\ request.current_turn = 3
    /\ request.intent = "refund_request"
    /\ request.urgency = "low"
    /\ request.sentiment = "frustrated"
    /\ ~request.escalated_in_session
    /\ response.result = FALSE

\* C19: the prompt of a non-denied chat turn is the instruction pair, then
\* the prior history in order (bot as the model role, user as user), then
\* exactly one final instruction from the user role: the greeting directive
\* if the intent is greeting on turn 1; else the order-status directive with
\* the order lookup's output if the intent is order_status; else the
\* knowledge-base directive if the lookup for (query, domain) finds an
\* article; else the structured-context directive.  The order lookup is
\* called on the order-status path only.
C19_PromptComposer ==
    (request.op = "compose" /\ trace.outcome = "returned") =>
        LET req == request.chat
            history == req.conversation_history
            messages == response.gemini_messages
            last == messages[Len(messages)]
            intent == IntentOf[req.user_query].intent
            extracted == IntentOf[req.user_query].shopid
            turn == (Len(history) \div 2) + 1
            knowledge == get_knowledge_base_info(req.user_query, req.domain)
        IN  /\ Len(messages) = Len(history) + 3
            /\ messages[1].role = "user"
            /\ StartsWith(messages[1].parts,
                          "You are a friendly, empathetic, and professional customer support assistant. ")
            /\ messages[2].role = "model"
            /\ StartsWith(messages[2].parts, "Understood.")
            /\ \A n \in 1..Len(history) :
                  /\ messages[n + 2].role = (IF history[n].role = "bot" THEN "model" ELSE "user")
                  /\ messages[n + 2].parts = history[n].content
            /\ last.role = "user"
            /\ IF intent = "greeting" /\ turn = 1
               THEN /\ StartsWith(last.parts, "The user has just started the conversation or said hello.")
                    /\ response.order_lookups = <<>>
               ELSE IF intent = "order_status"
               THEN /\ StartsWith(last.parts, "The customer asked for order status.")
                    /\ response.order_lookups
                         = << IF extracted # None THEN extracted ELSE req.shop_id_for_order_lookup >>
                    /\ Contains(last.parts,
                                get_order_details_by_id(TRUE, request.orders,
                                                        response.order_lookups[1], request.today).text)
               ELSE IF knowledge # "No specific knowledge base article found for this query."
               THEN /\ StartsWith(last.parts, "The user asked about '" \o req.user_query \o "'.")
                    /\ Contains(last.parts, knowledge)
                    /\ response.order_lookups = <<>>
               ELSE /\ StartsWith(last.parts, "Customer Query: " \o req.user_query \o "\n")
                    /\ response.order_lookups = <<>>

\* An order_status turn whose text also matches a knowledge base article of
\* its domain, after one earlier turn pair: the order-status directive is
\* the fourth and last message.
C19_Witness ==
    /\ request.op = "compose"
    /\ trace.outcome = "returned"
    /\ request.chat.user_query = "refund status"
    /\ request.chat.domain = "general"
    /\ get_knowledge_base_info(request.chat.user_query, request.chat.domain)
         # "No specific knowledge base article found for this query."
    /\ Len(request.chat.conversation_history) = 2
    /\ Len(response.gemini_messages) = 5
    /\ StartsWith(response.gemini_messages[5].parts, "The customer asked for order status.")

\* ------------------------------------------------------------------------
\* Case statuses, the load-or-create step and active_case_id
\* ------------------------------------------------------------------------

PersistedStatuses == {"open", "escalated_to_human", "resolved"}

\* C25: the status closed is never persisted: every stored case has status
\* open, escalated_to_human or resolved; a response carries case_status
\* closed only when it is the refusal of a denied chat turn; and on every
\* non-denied chat turn the returned case_status is the status the turn
\* persisted and the returned case_id is the request's session id.
C25_ClosedNeverPersisted ==
    /\ \A s \in DOMAIN cases_collection :
          cases_collection[s].status \in PersistedStatuses
    /\ ("case_status" \in DOMAIN response /\ response.case_status = "closed") =>
          /\ request.op = "chat"
          /\ trace.outcome = "denied"
          /\ response = RefusalResponse(request.domain)
    /\ (request.op = "chat" /\ trace.outcome = "denied") =>
          response.case_status = "closed"
    /\ (request.op = "chat" /\ trace.outcome = "turn") =>
          /\ request.session_id \in DOMAIN cases_collection
          /\ response.case_status = cases_collection[request.session_id].status
          /\ response.case_status \in PersistedStatuses
          /\ response.case_id = request.session_id

\* A turn on a resolved case returns the status it persisted, resolved, and
\* the session id.
C25_Witness ==
    /\ request.op = "chat"
    /\ trace.outcome = "turn"
    /\ response.case_status = "resolved"
    /\ response.case_id = request.session_id
    /\ cases_collection[request.session_id].status = "resolved"

\* The cases of customer c that are open or escalated to a human.
LiveCases(c) ==
    { s \in DOMAIN cases_collection :
        /\ cases_collection[s].customer_id = c
        /\ cases_collection[s].status \in {"open", "escalated_to_human"} }

\* C26: after any sequence of completed chat and resolve requests, a
\* customer's active_case_id is set if and only if the customer has a case
\* whose status is open or escalated_to_human, and when set it is the id of
\* such a case owned by that customer.
C26_ActiveCaseTracksLiveCase ==
    \A c \in DOMAIN customers_collection :
        LET active_case_id == customers_collection[c].active_case_id
        IN  /\ (active_case_id # None) <=> (LiveCases(c) # {})
            /\ (active_case_id # None) => (active_case_id \in LiveCases(c))

\* C24: load-or-create on a chat request.  When the store holds no case with
\* the session id for the customer, the request inserts a case with that id,
\* status open, empty conversation_history, escalated false and the requested
\* domain (seen as inserted after a denied turn; a non-denied turn has
\* written its own turn over it) and sets the customer's active_case_id to
\* it.  When the case exists, the load step resets none of status, escalated,
\* domain, customer_id and initial_query.  No request changes the stored
\* domain or customer_id of a case.
C24_LoadOrCreate ==
    [][/\ (request'.op = "chat" /\ trace'.outcome # "unavailable") =>
            LET s == request'.session_id
                c == request'.customer_profile.customer_id
            IN  IF ~CaseFound(cases_collection, s, c)
                THEN /\ s \in DOMAIN cases_collection'
                     /\ cases_collection'[s].session_id = s
                     /\ cases_collection'[s].customer_id = c
                     /\ cases_collection'[s].domain = request'.domain
                     /\ cases_collection'[s].initial_query = request'.user_query
                     /\ cases_collection'[s].status \in {"open", "escalated_to_human"}
                     /\ trace'.outcome = "denied" =>
                           cases_collection'[s] = NewCase(request', now')
                     /\ c \in DOMAIN customers_collection'
                     /\ customers_collection'[c].active_case_id = s
                ELSE /\ cases_collection'[s].initial_query = cases_collection[s].initial_query
                     /\ cases_collection'[s].created_at = cases_collection[s].created_at
                     /\ trace'.outcome = "denied" =>
                           cases_collection'[s] = cases_collection[s]
                     /\ customers_collection'[c].active_case_id
                           = customers_collection[c].active_case_id
       /\ \A s \in DOMAIN cases_collection :
            /\ s \in DOMAIN cases_collection'
            /\ cases_collection'[s].domain = cases_collection[s].domain
            /\ cases_collection'[s].customer_id = cases_collection[s].customer_id]_vars

\* ------------------------------------------------------------------------
\* Overlapping requests on one case
\* ------------------------------------------------------------------------

\* C21: also when chat requests for the same case overlap, the stored
\* escalated flag of a case never changes from true to false and its stored
\* status never changes from escalated_to_human back to open.
C21_EscalationSurvivesOverlap ==
    [][\A s \in DOMAIN cases_collection :
          /\ cases_collection[s].escalated => cases_collection'[s].escalated
          /\ cases_collection[s].status = "escalated_to_human" =>
                cases_collection'[s].status # "open"]_vars

\* Handler i takes its second step (from the LLM's outcome on) in this step.
Resumes(i) ==
    /\ handlers[i].pc = "await_llm"
    /\ handlers'[i].pc = "done"

\* C22: when a resolve request completes while a chat request for the same
\* case is in flight (the chat read the case before the resolution and
\* persists after it), the case stays resolved: the chat's final write
\* neither sets the stored status back to open or escalated_to_human nor
\* appends a turn to the resolved case.
C22_ResolvedSurvivesInFlightChat ==
    [][\A i \in DOMAIN handlers :
          LET s == handlers[i].request.session_id
          IN  ( /\ handlers[i].op = "chat"
                /\ Resumes(i)
                /\ handlers[i].locals.current_case_data.status # "resolved"
                /\ cases_collection[s].status = "resolved" )
              => /\ cases_collection'[s].status = "resolved"
                 /\ cases_collection'[s].conversation_history
                       = cases_collection[s].conversation_history]_vars

\* Chat handler k wrote the case of handler i while i was at its await.
PersistedDuring(k, i) ==
    /\ k # i
    /\ handlers[k].op = "chat"
    /\ handlers[k].pc = "done"
    /\ handlers[k].request.session_id = handlers[i].request.session_id
    /\ handlers[k].finished > handlers[i].started

\* C23: overlapping chat requests for one case are last-write-wins: when a
\* chat handler persists, the stored conversation_history is the history its
\* request carried followed by its own turn pair, and the stored status and
\* escalated flag are the ones it computed from the case as it read it
\* before its await; no entry written by a handler that persisted in between
\* is left in the stored history.
C23_LastWriteWins ==
    [][\A i \in DOMAIN handlers :
          (handlers[i].op = "chat" /\ Resumes(i)) =>
             LET req == handlers[i].request
                 read == handlers[i].locals.current_case_data
                 case == cases_collection'[req.session_id]
                 escalated0 == read.escalated \/ trace'.llm_failed
             IN  /\ case.conversation_history
                       = req.conversation_history
                           \o << [role |-> "user", content |-> req.user_query, timestamp |-> now'],
                                 [role |-> "bot", content |-> response'.bot_response, timestamp |-> now'] >>
                 /\ case.escalated = (escalated0 \/ trace'.should_escalate)
                 /\ case.status = IF trace'.should_escalate /\ ~escalated0
                                  THEN "escalated_to_human"
                                  ELSE read.status
                 /\ case.status = response'.case_status
                 /\ \A k \in DOMAIN handlers :
                       PersistedDuring(k, i) =>
                          \A n \in DOMAIN case.conversation_history :
                              case.conversation_history[n].timestamp # handlers[k].finished]_vars

\* Two chat requests for one case overlapped and both completed: the store
\* holds the history of the one that persisted last, two entries, although
\* the other one had stored its own turn pair and an escalation before.
C23_Witness ==
    \E i, k \in DOMAIN handlers :
        /\ handlers[i].op = "chat"
        /\ handlers[i].pc = "done"
        /\ handlers[i].finished = now
        /\ PersistedDuring(k, i)
        /\ handlers[k].response.case_status = "escalated_to_human"
        /\ handlers[i].request.conversation_history = <<>>
        /\ Len(cases_collection[AsyncSession].conversation_history) = 2
        /\ cases_collection[AsyncSession].conversation_history[1].content
              = handlers[i].request.user_query
        /\ cases_collection[AsyncSession].status = "open"

====
